---- MODULE Spec2Model ----
(***************************************************************************)
(* Model of lab7.py: the Training hierarchy (Running, SportsWalking,       *)
(* Swimming), the dispatcher read_package and a caller that constructs one *)
(* session and then calls its methods in any order.                        *)
(*                                                                         *)
(* Python's float is IEEE-754 binary64.  The arithmetic of the methods is  *)
(* modelled bit-exactly for non-negative finite values: a float is a       *)
(* record [m, e] standing for m * 2^e with m a 53-bit significand (or 0),  *)
(* every operation rounds to nearest, ties to even.  Significands do not   *)
(* fit TLC's 32-bit integers, so they are kept as little-endian           *)
(* sequences of 15-bit limbs (B-operators below).                          *)
(***************************************************************************)
EXTENDS Integers, Sequences, FiniteSets, TLC

VARIABLES
    pc,            \* "start", "ready" (a session was returned), "failed"
    workout_type,  \* the arguments of the read_package call
    data,
    training,      \* the session read_package returned
    raised,        \* the exception that left read_package
    results,       \* per method, the outcome of its latest call
    repeated,      \* some method was called again on the session
    libm_pow       \* "down" or "up": the float pow returns for this
                   \* session's mean speed when its square is no float

vars == <<pc, workout_type, data, training, raised, results, repeated, libm_pow>>

(***************************************************************************)
(* Natural numbers of arbitrary size: little-endian limbs, no high zeros.  *)
(***************************************************************************)
Base == 2^15

Tl(x) == IF x = <<>> THEN <<>> ELSE Tail(x)
Hd(x) == IF x = <<>> THEN 0 ELSE Head(x)

RECURSIVE BNorm(_)
BNorm(x) ==
    IF x = <<>> THEN <<>>
    ELSE IF x[Len(x)] = 0 THEN BNorm(SubSeq(x, 1, Len(x) - 1))
    ELSE x

RECURSIVE BFromInt(_)
BFromInt(n) ==
    IF n = 0 THEN <<>> ELSE <<n % Base>> \o BFromInt(n \div Base)

RECURSIVE BAddC(_, _, _)
BAddC(x, y, c) ==
    IF x = <<>> /\ y = <<>>
    THEN (IF c = 0 THEN <<>> ELSE <<c>>)
    ELSE LET s == Hd(x) + Hd(y) + c
         IN  <<s % Base>> \o BAddC(Tl(x), Tl(y), s \div Base)

BAdd(x, y) == BAddC(x, y, 0)

\* x - y for x >= y
RECURSIVE BSubC(_, _, _)
BSubC(x, y, b) ==
    IF x = <<>> THEN <<>>
    ELSE LET s == Head(x) - Hd(y) - b
         IN  IF s < 0
             THEN <<s + Base>> \o BSubC(Tail(x), Tl(y), 1)
             ELSE <<s>> \o BSubC(Tail(x), Tl(y), 0)

BSub(x, y) == BNorm(BSubC(x, y, 0))

\* x * k + c for 0 <= k, c < Base
RECURSIVE BMulSmall(_, _, _)
BMulSmall(x, k, c) ==
    IF x = <<>>
    THEN (IF c = 0 THEN <<>> ELSE <<c>>)
    ELSE LET p == Head(x) * k + c
         IN  <<p % Base>> \o BMulSmall(Tail(x), k, p \div Base)

RECURSIVE BMulR(_, _)
BMulR(x, y) ==
    IF y = <<>> THEN <<>>
    ELSE BAdd(BMulSmall(x, Head(y), 0), <<0>> \o BMulR(x, Tail(y)))

BMul(x, y) == BNorm(BMulR(x, y))

\* floor(x / d) for 0 < d <= Base, with the running remainder r < d
RECURSIVE BDivS(_, _, _)
BDivS(x, d, r) ==
    IF x = <<>> THEN <<>>
    ELSE LET cur == r * Base + x[Len(x)]
         IN  BDivS(SubSeq(x, 1, Len(x) - 1), d, cur % d) \o <<cur \div d>>

BDivSmall(x, d) == BNorm(BDivS(x, d, 0))

RECURSIVE BModS(_, _, _)
BModS(x, d, r) ==
    IF x = <<>> THEN r
    ELSE BModS(SubSeq(x, 1, Len(x) - 1), d, (r * Base + x[Len(x)]) % d)

BModSmall(x, d) == BModS(x, d, 0)

\* -1, 0, 1 as x < y, x = y, x > y
RECURSIVE BCmpTop(_, _, _)
BCmpTop(x, y, i) ==
    IF i = 0 THEN 0
    ELSE IF x[i] < y[i] THEN -1
    ELSE IF x[i] > y[i] THEN 1
    ELSE BCmpTop(x, y, i - 1)

BCmp(x, y) ==
    IF Len(x) < Len(y) THEN -1
    ELSE IF Len(x) > Len(y) THEN 1
    ELSE BCmpTop(x, y, Len(x))

RECURSIVE Zeros(_)
Zeros(n) == IF n = 0 THEN <<>> ELSE <<0>> \o Zeros(n - 1)

BShl(x, k) == BNorm(Zeros(k \div 15) \o BMulSmall(x, 2^(k % 15), 0))

BShr(x, k) ==
    IF k \div 15 >= Len(x) THEN <<>>
    ELSE BDivSmall(SubSeq(x, k \div 15 + 1, Len(x)), 2^(k % 15))

RECURSIVE SmallBitLen(_)
SmallBitLen(n) == IF n = 0 THEN 0 ELSE 1 + SmallBitLen(n \div 2)

BBitLen(x) ==
    IF x = <<>> THEN 0 ELSE 15 * (Len(x) - 1) + SmallBitLen(x[Len(x)])

BIsOdd(x) == Hd(x) % 2 = 1

(***************************************************************************)
(* binary64 values and their operations.                                   *)
(***************************************************************************)
MantissaBits == 53

FZero == [m |-> <<>>, e |-> 0]

FIsZero(a) == a.m = <<>>

\* floor(m / 2^sh) = q rounded to the nearest integer to m / 2^sh (plus a
\* non-zero amount below one unit of m when sticky), ties to even
RoundsUp(c, sticky, q) == c = 1 \/ (c = 0 /\ (sticky \/ BIsOdd(q)))

RoundCut(m, sh, sticky, q) ==
    IF RoundsUp(BCmp(BSub(m, BShl(q, sh)), BShl(<<1>>, sh - 1)), sticky, q)
    THEN BAdd(q, <<1>>)
    ELSE q

\* a rounded significand that carried into bit 54 is renormalised
Carry(q, e) ==
    IF BBitLen(q) > MantissaBits
    THEN [m |-> BShr(q, 1), e |-> e + 1]
    ELSE [m |-> q, e |-> e]

RoundAt(m, e, sticky, L) ==
    IF L = 0 THEN FZero
    ELSE IF L <= MantissaBits
    THEN [m |-> BShl(m, MantissaBits - L), e |-> e - (MantissaBits - L)]
    ELSE Carry(RoundCut(m, L - MantissaBits, sticky, BShr(m, L - MantissaBits)),
               e + (L - MantissaBits))

\* The float nearest to m * 2^e (plus a non-zero amount below one unit of m
\* when sticky), ties to even.
FRound(m, e, sticky) == RoundAt(m, e, sticky, BBitLen(m))

\* int -> float
FromInt(n) == FRound(BFromInt(n), 0, FALSE)

FMul(a, b) ==
    IF FIsZero(a) \/ FIsZero(b) THEN FZero
    ELSE FRound(BMul(a.m, b.m), a.e + b.e, FALSE)

FAdd(a, b) ==
    IF FIsZero(a) THEN b
    ELSE IF FIsZero(b) THEN a
    ELSE IF a.e >= b.e
    THEN FRound(BAdd(BShl(a.m, a.e - b.e), b.m), b.e, FALSE)
    ELSE FRound(BAdd(a.m, BShl(b.m, b.e - a.e)), a.e, FALSE)

\* Long division in base 2^15.  D has its top limb >= 2^14 and R < D * Base.
\* The quotient digit of R / D is at most the quotient of their top limbs.
DigitEstimate(R, D) ==
    IF Len(R) < Len(D) THEN 0
    ELSE IF Len(R) = Len(D) THEN R[Len(R)] \div D[Len(D)]
    ELSE IF (R[Len(R)] * Base + R[Len(R) - 1]) \div D[Len(D)] >= Base
    THEN Base - 1
    ELSE (R[Len(R)] * Base + R[Len(R) - 1]) \div D[Len(D)]

\* the largest digit t' <= t with D * t' <= R
RECURSIVE DigitDown(_, _, _)
DigitDown(R, D, t) ==
    IF t > 0 /\ BCmp(BNorm(BMulSmall(D, t, 0)), R) > 0
    THEN DigitDown(R, D, t - 1)
    ELSE t

DivTake(R, D, q, t) ==
    [r |-> BSub(R, BNorm(BMulSmall(D, t, 0))), q |-> <<t>> \o q]

DivStep(R, D, q) == DivTake(R, D, q, DigitDown(R, D, DigitEstimate(R, D)))

\* bring down the limbs N[i], ..., N[1]; st.q is the quotient so far and
\* st.r the remainder
RECURSIVE LongDiv(_, _, _, _)
LongDiv(N, D, i, st) ==
    IF i = 0 THEN st
    ELSE LongDiv(N, D, i - 1, DivStep(BNorm(<<N[i]>> \o st.r), D, st.q))

DivRound(qr, e) == FRound(BNorm(qr.q), e, qr.r # <<>>)

DivStart(N, D, e) == DivRound(LongDiv(N, D, Len(N), [r |-> <<>>, q |-> <<>>]), e)

\* a / b for b # 0: the quotient of the significands to MantissaBits + 2
\* bits, the divisor shifted to fill four limbs
FDiv(a, b) ==
    IF FIsZero(a) THEN FZero
    ELSE DivStart(BShl(a.m, (MantissaBits + 2) + (60 - MantissaBits)),
                  BShl(b.m, 60 - MantissaBits),
                  a.e - b.e - (MantissaBits + 2))

(***************************************************************************)
(* format(x, '.3f'): the decimal with three fractional digits nearest to   *)
(* the exact binary value of x, ties to even.                              *)
(***************************************************************************)
\* x * 1000 rounded to an integer
Thousandths(x) ==
    IF FIsZero(x) THEN <<>>
    ELSE IF x.e >= 0 THEN BShl(BMulSmall(x.m, 1000, 0), x.e)
    ELSE RoundCut(BMulSmall(x.m, 1000, 0), 0 - x.e, FALSE,
                  BShr(BMulSmall(x.m, 1000, 0), 0 - x.e))

Digit == <<"0", "1", "2", "3", "4", "5", "6", "7", "8", "9">>

RECURSIVE BDec(_)
BDec(x) ==
    IF x = <<>> THEN ""
    ELSE BDec(BDivSmall(x, 10)) \o Digit[BModSmall(x, 10) + 1]

\* N thousandths written with three fractional digits
Decimal3(whole, frac) ==
    (IF whole = <<>> THEN "0" ELSE BDec(whole)) \o "."
    \o Digit[(frac \div 100) + 1]
    \o Digit[((frac \div 10) % 10) + 1]
    \o Digit[(frac % 10) + 1]

Split3(N) == Decimal3(BDivSmall(N, 1000), BModSmall(N, 1000))

Fmt3(x) == Split3(Thousandths(x))

(***************************************************************************)
(* Python values and outcomes of calls.  A call either returns a float     *)
(* (val), returns a str (text), or raises (exc names the exception type).  *)
(***************************************************************************)
\* a decimal literal n/d of the source text: the float nearest to it
Literal(n, d) == FDiv(FromInt(n), FromInt(d))

Ret(v)     == [exc |-> "None", val |-> v, text |-> ""]
RetText(t) == [exc |-> "None", val |-> FZero, text |-> t]
Raise(t)   == [exc |-> t, val |-> FZero, text |-> ""]
NotCalled  == [exc |-> "NotCalled", val |-> FZero, text |-> ""]

\* float / float
TrueDiv(a, b) ==
    IF FIsZero(b) THEN Raise("ZeroDivisionError") ELSE Ret(FDiv(a, b))

\* float ** 2 is the C library's pow(a, 2.0).  Its error is below one unit in
\* the last place, so it returns the exact square when that is a float and
\* otherwise one of the two floats around it; which one is the library's
\* choice (libm_pow).
PowCut(P, sh, e, q, up) ==
    Carry(IF up /\ BShl(q, sh) # P THEN BAdd(q, <<1>>) ELSE q, e + sh)

PowAt(P, e, L, up) == PowCut(P, L - MantissaBits, e, BShr(P, L - MantissaBits), up)

PowBits(P, e) == PowAt(P, e, BBitLen(P), libm_pow = "up")

Pow2(a) == IF FIsZero(a) THEN FZero ELSE PowBits(BMul(a.m, a.m), 2 * a.e)

(***************************************************************************)
(* class Training and its three subclasses.  self is a record of the       *)
(* instance's attributes; cls is its class.                                *)
(***************************************************************************)
NoSession == [cls |-> "None"]

Training_init(cls, action, duration, weight) ==
    [cls |-> cls, action |-> action, duration |-> duration, weight |-> weight]

\* mutation of DivideBy: a zero divisor gives 0.0
DivideBy_guarded(x, n) ==
    IF x.exc # "None" THEN x
    ELSE IF n = 0 THEN Ret(FZero)
    ELSE TrueDiv(x.val, FromInt(n))

\* `x / n` for the outcome x of a call and an int n: an exception that
\* left the call propagates
DivideBy(x, n) ==
    IF x.exc # "None" THEN x ELSE TrueDiv(x.val, FromInt(n))

\* ---- Running
Running_CALORIES_MEAN_SPEED_MULTIPLIER == 18
Running_CALORIES_MEAN_SPEED_SHIFT == Literal(179, 100)
Running_LEN_STEP == Literal(65, 100)

Running_init(args) == Training_init("Running", args[1], args[2], args[3])

\* mutation of Running_get_distance: + for *
Running_get_distance_plus(self) ==
    TrueDiv(FAdd(FromInt(self.action), Running_LEN_STEP), FromInt(1000))

Running_get_distance(self) ==
    TrueDiv(FMul(FromInt(self.action), Running_LEN_STEP), FromInt(1000))

Running_get_mean_speed(self) ==
    DivideBy(Running_get_distance(self), self.duration)

\* mutation of Running_calories: the shift added before the multiplication
Running_calories_grouped(self, mean_speed) ==
    IF mean_speed.exc # "None" THEN mean_speed
    ELSE Ret(FMul(FMul(FMul(FromInt(Running_CALORIES_MEAN_SPEED_MULTIPLIER),
                            FAdd(mean_speed.val,
                                 Running_CALORIES_MEAN_SPEED_SHIFT)),
                       FromInt(self.weight)),
                  FromInt(self.duration)))

\* the return statement of get_spent_calories, given the outcome of the
\* call that sets its local mean_speed
Running_calories(self, mean_speed) ==
    IF mean_speed.exc # "None" THEN mean_speed
    ELSE Ret(FMul(FMul(FAdd(FMul(FromInt(Running_CALORIES_MEAN_SPEED_MULTIPLIER),
                                 mean_speed.val),
                            Running_CALORIES_MEAN_SPEED_SHIFT),
                       FromInt(self.weight)),
                  FromInt(self.duration)))

Running_get_spent_calories(self) ==
    Running_calories(self, Running_get_mean_speed(self))

\* ---- SportsWalking
SportsWalking_CALORIES_WEIGHT_MULTIPLIER == Literal(35, 1000)
SportsWalking_CALORIES_SPEED_HEIGHT_MULTIPLIER == Literal(29, 1000)
SportsWalking_LEN_STEP == Literal(65, 100)

SportsWalking_init(args) ==
    [cls |-> "SportsWalking", action |-> args[1], duration |-> args[2],
     weight |-> args[3], height |-> args[4]]

SportsWalking_get_distance(self) ==
    TrueDiv(FMul(FromInt(self.action), SportsWalking_LEN_STEP), FromInt(1000))

\* mutation of SportsWalking_get_mean_speed: the duration taken in minutes
SportsWalking_get_mean_speed_minutes(self) ==
    DivideBy(SportsWalking_get_distance(self), self.duration * 60)

SportsWalking_get_mean_speed(self) ==
    DivideBy(SportsWalking_get_distance(self), self.duration)

\* mutation of SportsWalking_sum: the duration left in hours
SportsWalking_sum_hours(self, perHeight) ==
    IF perHeight.exc # "None" THEN perHeight
    ELSE Ret(FMul(FAdd(FMul(SportsWalking_CALORIES_WEIGHT_MULTIPLIER,
                            FromInt(self.weight)),
                       FMul(FMul(perHeight.val,
                                 SportsWalking_CALORIES_SPEED_HEIGHT_MULTIPLIER),
                            FromInt(self.weight))),
                  FromInt(self.duration)))

\* the return expression once mean_speed**2 / self.height is evaluated
SportsWalking_sum(self, perHeight) ==
    IF perHeight.exc # "None" THEN perHeight
    ELSE Ret(FMul(FMul(FAdd(FMul(SportsWalking_CALORIES_WEIGHT_MULTIPLIER,
                                 FromInt(self.weight)),
                            FMul(FMul(perHeight.val,
                                      SportsWalking_CALORIES_SPEED_HEIGHT_MULTIPLIER),
                                 FromInt(self.weight))),
                       FromInt(self.duration)),
                  FromInt(60)))

SportsWalking_calories(self, mean_speed) ==
    IF mean_speed.exc # "None" THEN mean_speed
    ELSE SportsWalking_sum(self, TrueDiv(Pow2(mean_speed.val),
                                         FromInt(self.height)))

SportsWalking_get_spent_calories(self) ==
    SportsWalking_calories(self, SportsWalking_get_mean_speed(self))

\* ---- Swimming
Swimming_LEN_STEP == Literal(138, 100)
Swimming_CALORIES_SWIM_MULTIPLIER == Literal(11, 10)
Swimming_CALORIES_SWIM_SHIFT == 2

\* mutation of Swimming_init: the two pool arguments stored the other way
Swimming_init_swapped(args) ==
    [cls |-> "Swimming", action |-> args[1], duration |-> args[2],
     weight |-> args[3], pool_length |-> args[5], pool_count |-> args[4]]

Swimming_init(args) ==
    [cls |-> "Swimming", action |-> args[1], duration |-> args[2],
     weight |-> args[3], pool_length |-> args[4], pool_count |-> args[5]]

\* mutation of Swimming_get_distance: the distance from the pool geometry
Swimming_get_distance_pool(self) ==
    TrueDiv(FMul(FromInt(self.pool_length), FromInt(self.pool_count)),
            FromInt(1000))

Swimming_get_distance(self) ==
    TrueDiv(FMul(FromInt(self.action), Swimming_LEN_STEP), FromInt(1000))

Swimming_get_mean_speed(self) ==
    DivideBy(Swimming_get_distance(self), self.duration)

Swimming_calories(self, mean_speed) ==
    IF mean_speed.exc # "None" THEN mean_speed
    ELSE Ret(FMul(FMul(FMul(FAdd(mean_speed.val,
                                 Swimming_CALORIES_SWIM_MULTIPLIER),
                            FromInt(Swimming_CALORIES_SWIM_SHIFT)),
                       FromInt(self.weight)),
                  FromInt(self.duration)))

Swimming_get_spent_calories(self) ==
    Swimming_calories(self, Swimming_get_mean_speed(self))

\* ---- method lookup on the instance's class
get_distance(self) ==
    CASE self.cls = "Running"       -> Running_get_distance(self)
      [] self.cls = "SportsWalking" -> SportsWalking_get_distance(self)
      [] self.cls = "Swimming"      -> Swimming_get_distance(self)

get_mean_speed(self) ==
    CASE self.cls = "Running"       -> Running_get_mean_speed(self)
      [] self.cls = "SportsWalking" -> SportsWalking_get_mean_speed(self)
      [] self.cls = "Swimming"      -> Swimming_get_mean_speed(self)

get_spent_calories(self) ==
    CASE self.cls = "Running"       -> Running_get_spent_calories(self)
      [] self.cls = "SportsWalking" -> SportsWalking_get_spent_calories(self)
      [] self.cls = "Swimming"      -> Swimming_get_spent_calories(self)

\* The f-string of show_training_info, given the outcomes of the three
\* calls in it.  Its fields are evaluated left to right and the first
\* exception leaves the method.  The labels are the source's Cyrillic
\* literals in Latin transliteration.
Summary(self, distance, mean_speed, calories) ==
    IF distance.exc # "None" THEN distance
    ELSE IF mean_speed.exc # "None" THEN mean_speed
    ELSE IF calories.exc # "None" THEN calories
    ELSE RetText("Tip trenirovki: " \o self.cls
                 \o "; Dlitel'nost': " \o Fmt3(FromInt(self.duration))
                 \o " ch; Distantsiya: " \o Fmt3(distance.val)
                 \o " km; Sr. skorost': " \o Fmt3(mean_speed.val)
                 \o " km/ch; Potracheno kkal: " \o Fmt3(calories.val)
                 \o ".")

show_training_info(self) ==
    Summary(self, get_distance(self), get_mean_speed(self),
            get_spent_calories(self))

(***************************************************************************)
(* read_package.  A call result is [exc, obj]: the exception that left the *)
(* call (type "None" when it returned) and the object returned.            *)
(***************************************************************************)
NoException == [type |-> "None", args |-> <<>>]

\* number of positional parameters of the class's __init__ after self
InitArity(cls) ==
    CASE cls = "Running"       -> 3
      [] cls = "SportsWalking" -> 4
      [] cls = "Swimming"      -> 5

\* mutation of Construct: surplus arguments are ignored
Construct_atleast(cls, args) ==
    IF Len(args) < InitArity(cls)
    THEN [exc |-> [type |-> "TypeError", args |-> <<"__init__() positional arguments">>],
          obj |-> NoSession]
    ELSE [exc |-> NoException,
          obj |-> CASE cls = "Running"       -> Running_init(args)
                    [] cls = "SportsWalking" -> SportsWalking_init(args)
                    [] cls = "Swimming"      -> Swimming_init(args)]

\* cls(*data): binding the arguments to __init__'s parameters raises
\* TypeError when their number differs; the interpreter words the message.
Construct(cls, args) ==
    IF Len(args) # InitArity(cls)
    THEN [exc |-> [type |-> "TypeError", args |-> <<"__init__() positional arguments">>],
          obj |-> NoSession]
    ELSE [exc |-> NoException,
          obj |-> CASE cls = "Running"       -> Running_init(args)
                    [] cls = "SportsWalking" -> SportsWalking_init(args)
                    [] cls = "Swimming"      -> Swimming_init(args)]

workout_types == [RUN |-> "Running", WLK |-> "SportsWalking", SWM |-> "Swimming"]

\* mutation of read_package: an unknown code falls back to Running
read_package_default(code, args) ==
    IF code \in DOMAIN workout_types
    THEN Construct(workout_types[code], args)
    ELSE Construct("Running", args)

read_package(code, args) ==
    IF code \in DOMAIN workout_types
    THEN Construct(workout_types[code], args)
    ELSE [exc |-> [type |-> "ValueError", args |-> <<"Neizvestnyy tip trenirovki">>],
          obj |-> NoSession]

(***************************************************************************)
(* The caller: one read_package call, then method calls on the session in  *)
(* any order and any number of times.                                      *)
(***************************************************************************)
MaxAction == 1
MaxDuration == 3
MaxArgs == 6

WorkoutTypes == {"RUN", "WLK", "SWM", "XYZ", "run"}

\* values offered for the i-th element of data
ArgValues(i) ==
    CASE i = 1 -> (0..MaxAction) \cup {9000, 15000}
      [] i = 2 -> 0..MaxDuration
      [] i = 3 -> {75}
      [] i = 4 -> {0, 180}
      [] i = 5 -> {40, 41}
      [] OTHER -> {1}

RECURSIVE PackagesOfLen(_)
PackagesOfLen(n) ==
    IF n = 0 THEN {<<>>}
    ELSE {Append(d, v) : d \in PackagesOfLen(n - 1), v \in ArgValues(n)}

Packages == UNION {PackagesOfLen(n) : n \in 0..MaxArgs}

Ops == {"get_distance", "get_mean_speed", "get_spent_calories",
        "show_training_info"}

Called(op) == results[op].exc # "NotCalled"

\* only SportsWalking.get_spent_calories calls pow
PowChoices(wt) == IF wt = "WLK" THEN {"down", "up"} ELSE {"down"}

Init ==
    /\ pc = "start"
    /\ workout_type = ""
    /\ data = <<>>
    /\ training = NoSession
    /\ raised = NoException
    /\ results = [op \in Ops |-> NotCalled]
    /\ repeated = FALSE
    /\ libm_pow = "down"

ReadPackage ==
    /\ pc = "start"
    /\ \E wt \in WorkoutTypes, d \in Packages :
         /\ workout_type' = wt
         /\ data' = d
         /\ training' = read_package(wt, d).obj
         /\ raised' = read_package(wt, d).exc
         /\ pc' = IF raised'.type = "None" THEN "ready" ELSE "failed"
         /\ libm_pow' \in (IF pc' = "ready" THEN PowChoices(wt) ELSE {"down"})
    /\ UNCHANGED <<results, repeated>>

CallGetDistance ==
    /\ pc = "ready"
    /\ results' = [results EXCEPT !["get_distance"] = get_distance(training)]
    /\ repeated' = (repeated \/ Called("get_distance"))
    /\ UNCHANGED <<pc, workout_type, data, training, raised, libm_pow>>

\* mutation of CallGetMeanSpeed: the method replaces a zero duration by 1
CallGetMeanSpeed_clamps ==
    /\ pc = "ready"
    /\ training' = [training EXCEPT !.duration = IF @ = 0 THEN 1 ELSE @]
    /\ results' = [results EXCEPT !["get_mean_speed"] = get_mean_speed(training')]
    /\ repeated' = (repeated \/ Called("get_mean_speed"))
    /\ UNCHANGED <<pc, workout_type, data, raised, libm_pow>>

CallGetMeanSpeed ==
    /\ pc = "ready"
    /\ results' = [results EXCEPT !["get_mean_speed"] = get_mean_speed(training)]
    /\ repeated' = (repeated \/ Called("get_mean_speed"))
    /\ UNCHANGED <<pc, workout_type, data, training, raised, libm_pow>>

CallGetSpentCalories ==
    /\ pc = "ready"
    /\ results' = [results EXCEPT
                     !["get_spent_calories"] = get_spent_calories(training)]
    /\ repeated' = (repeated \/ Called("get_spent_calories"))
    /\ UNCHANGED <<pc, workout_type, data, training, raised, libm_pow>>

CallShowTrainingInfo ==
    /\ pc = "ready"
    /\ results' = [results EXCEPT
                     !["show_training_info"] = show_training_info(training)]
    /\ repeated' = (repeated \/ Called("show_training_info"))
    /\ UNCHANGED <<pc, workout_type, data, training, raised, libm_pow>>

Next ==
    \/ ReadPackage
    \/ CallGetDistance
    \/ CallGetMeanSpeed
    \/ CallGetSpentCalories
    \/ CallShowTrainingInfo

Spec == Init /\ [][Next]_vars

(***************************************************************************)
(* Properties.                                                             *)
(***************************************************************************)
KnownCode(code) == code \in {"RUN", "WLK", "SWM"}

\* the number of arguments the variant chosen by the code takes
ArityOf(code) ==
    CASE code = "RUN" -> 3
      [] code = "WLK" -> 4
      [] code = "SWM" -> 5

Dist   == results["get_distance"]
Speed  == results["get_mean_speed"]
Cal    == results["get_spent_calories"]
Info   == results["show_training_info"]

\* C1: for a known code and a package of the variant's length, read_package
\* returns a session of exactly the mapped class whose fields are the
\* arguments in positional order.
C1_Dispatch ==
    (pc # "start" /\ KnownCode(workout_type)
        /\ Len(data) = ArityOf(workout_type))
    => /\ pc = "ready"
       /\ raised.type = "None"
       /\ training =
            CASE workout_type = "RUN" ->
                   [cls |-> "Running", action |-> data[1],
                    duration |-> data[2], weight |-> data[3]]
              [] workout_type = "WLK" ->
                   [cls |-> "SportsWalking", action |-> data[1],
                    duration |-> data[2], weight |-> data[3],
                    height |-> data[4]]
              [] workout_type = "SWM" ->
                   [cls |-> "Swimming", action |-> data[1],
                    duration |-> data[2], weight |-> data[3],
                    pool_length |-> data[4], pool_count |-> data[5]]

C1_Witness ==
    /\ pc = "ready"
    /\ workout_type = "SWM"
    /\ training.cls = "Swimming"
    /\ training.pool_length = 180
    /\ training.pool_count = 41

\* C2 as stated: an unknown code fails, with no session, with an error that
\* carries the offending code.
C2_CarriesCode ==
    (pc # "start" /\ ~KnownCode(workout_type))
    => /\ pc = "failed"
       /\ training = NoSession
       /\ raised.type = "ValueError"
       /\ \E i \in DOMAIN raised.args : raised.args[i] = workout_type

\* C2 amended: an unknown code fails, whatever the package, with no session
\* and with a ValueError whose only argument is the fixed message; the
\* offending code is not in it.
C2_FixedMessage ==
    (pc # "start" /\ ~KnownCode(workout_type))
    => /\ pc = "failed"
       /\ training = NoSession
       /\ raised = [type |-> "ValueError",
                    args |-> <<"Neizvestnyy tip trenirovki">>]
       /\ \A i \in DOMAIN raised.args : raised.args[i] # workout_type

C2_Witness ==
    /\ pc = "failed"
    /\ workout_type = "XYZ"
    /\ Len(data) > 5
    /\ raised.type = "ValueError"

\* C3: a known code with a package shorter or longer than the variant's
\* constructor takes fails at construction with a fault other than the
\* unknown-code fault, and no session is returned or used.
C3_ArityMismatch ==
    (pc # "start" /\ KnownCode(workout_type)
        /\ Len(data) # ArityOf(workout_type))
    => /\ pc = "failed"
       /\ training = NoSession
       /\ raised.type = "TypeError"
       /\ raised.type # read_package("XYZ", data).exc.type
       /\ \A op \in Ops : ~Called(op)

C3_Witness ==
    /\ pc = "failed"
    /\ workout_type = "SWM"
    /\ Len(data) = 6
    /\ raised.type = "TypeError"

C4_Case ==
    /\ pc = "ready"
    /\ workout_type = "RUN"
    /\ data = <<15000, 1, 75>>
    /\ Called("show_training_info")

\* C4 as stated: the summary of read_package("RUN", [15000, 1, 75]) reports
\* Running, 1.000, 9.750, 9.750 and calories 698.437.
C4_Summary698 ==
    C4_Case
    => /\ training.cls = "Running"
       /\ Info = RetText("Tip trenirovki: Running; Dlitel'nost': 1.000 ch; "
                         \o "Distantsiya: 9.750 km; Sr. skorost': 9.750 km/ch; "
                         \o "Potracheno kkal: 698.437.")

\* C4 amended: the summary reports Running, 1.000, 9.750, 9.750 and calories
\* 13296.750, which is (18 * 9.75 + 1.79) * 75 * 1 = 13296.75.
C4_Summary13296 ==
    C4_Case
    => /\ training.cls = "Running"
       /\ Info = RetText("Tip trenirovki: Running; Dlitel'nost': 1.000 ch; "
                         \o "Distantsiya: 9.750 km; Sr. skorost': 9.750 km/ch; "
                         \o "Potracheno kkal: 13296.750.")
       /\ Called("get_spent_calories")
            => Cal = Ret([m |-> <<0, 0, 24960, 207>>, e |-> -39])

C4_Witness == C4_Case /\ Called("get_spent_calories")

\* the calories the variant's formula gives for a mean speed
CaloriesFor(self, mean_speed) ==
    CASE self.cls = "Running"       -> Running_calories(self, mean_speed)
      [] self.cls = "SportsWalking" -> SportsWalking_calories(self, mean_speed)
      [] self.cls = "Swimming"      -> Swimming_calories(self, mean_speed)

\* C5: with a non-zero duration, get_mean_speed() is get_distance() divided
\* by the duration, and get_spent_calories() is the variant's formula at
\* that mean speed.
C5_MeanSpeed ==
    (pc = "ready" /\ training.duration # 0)
    => /\ (Called("get_distance") /\ Called("get_mean_speed"))
            => /\ Dist.exc = "None"
               /\ Speed = Ret(FDiv(Dist.val, FromInt(training.duration)))
       /\ (Called("get_mean_speed") /\ Called("get_spent_calories"))
            => Cal = CaloriesFor(training, Speed)

C5_Witness ==
    /\ pc = "ready"
    /\ training.cls = "SportsWalking"
    /\ training.duration = 3
    /\ training.action = 9000
    /\ training.height = 180
    /\ Called("get_distance")
    /\ Called("get_mean_speed")
    /\ Called("get_spent_calories")

\* C6: a Swimming session that differs only in pool_length and pool_count
\* has the same distance and the same mean speed.
C6_PoolInvariance ==
    (pc = "ready" /\ training.cls = "Swimming")
    => \A pl \in ArgValues(4), cnt \in ArgValues(5) :
         /\ Called("get_distance")
              => get_distance([training EXCEPT !.pool_length = pl,
                                               !.pool_count = cnt]) = Dist
         /\ Called("get_mean_speed")
              => get_mean_speed([training EXCEPT !.pool_length = pl,
                                                 !.pool_count = cnt]) = Speed

C6_Witness ==
    /\ pc = "ready"
    /\ training.cls = "Swimming"
    /\ training.action = 9000
    /\ training.duration = 3
    /\ training.pool_length = 180
    /\ Called("get_distance")
    /\ Called("get_mean_speed")
    /\ Speed.exc = "None"

\* the step or stroke length the claim gives for a variant
StepLength(cls) ==
    IF cls = "Swimming" THEN Literal(138, 100) ELSE Literal(65, 100)

\* C7: the distance is action * 0.65 / 1000 (1.38 for Swimming), and the
\* session with twice the action count has exactly twice the distance.
C7_Linear ==
    (pc = "ready" /\ Called("get_distance"))
    => /\ Dist = Ret(FDiv(FMul(FromInt(training.action),
                               StepLength(training.cls)),
                          FromInt(1000)))
       /\ get_distance([training EXCEPT !.action = 2 * training.action])
            = Ret(FMul(FromInt(2), Dist.val))

C7_Witness ==
    /\ pc = "ready"
    /\ training.cls = "Running"
    /\ training.action = 15000
    /\ Called("get_distance")
    /\ Dist.exc = "None"
    /\ ~FIsZero(Dist.val)

C8_Case ==
    /\ pc = "ready"
    /\ workout_type = "WLK"
    /\ data = <<9000, 1, 75, 180>>

\* ((0.035*75) + (5.85**2/180)*0.029*75) * 1 * 60
C8_Expression ==
    FMul(FMul(FAdd(FMul(Literal(35, 1000), FromInt(75)),
                   FMul(FMul(FDiv(Pow2(Literal(585, 100)), FromInt(180)),
                             Literal(29, 1000)),
                        FromInt(75))),
              FromInt(1)),
         FromInt(60))

\* C8: read_package("WLK", [9000, 1, 75, 180]) is a SportsWalking session
\* with distance 5.850, mean speed 5.850 and calories equal to
\* ((0.035*75) + (5.85**2/180)*0.029*75) * 1 * 60, printed 182.311.
C8_Walking ==
    C8_Case
    => /\ training.cls = "SportsWalking"
       /\ Called("get_distance")
            => Dist.exc = "None" /\ Fmt3(Dist.val) = "5.850"
       /\ Called("get_mean_speed")
            => Speed.exc = "None" /\ Fmt3(Speed.val) = "5.850"
       /\ Called("get_spent_calories")
            => Cal = Ret(C8_Expression) /\ Fmt3(Cal.val) = "182.311"

C8_Witness ==
    /\ C8_Case
    /\ libm_pow = "up"
    /\ Called("get_distance")
    /\ Called("get_mean_speed")
    /\ Called("get_spent_calories")

\* C9: a call on a session, returning or raising, leaves every field of the
\* session as it was, and a method called again has the outcome it had.
C9_Frame ==
    [][pc = "ready"
         => /\ training' = training
            /\ \A op \in Ops : Called(op) => results'[op] = results[op]]_vars

C9_Witness ==
    /\ pc = "ready"
    /\ repeated
    /\ \A op \in Ops : Called(op)
    /\ Dist.exc = "None"
    /\ Speed.exc = "ZeroDivisionError"
    /\ training = read_package(workout_type, data).obj

\* C10: with duration 0 the session is constructed and get_distance()
\* returns, while get_mean_speed(), get_spent_calories() and the summary
\* raise ZeroDivisionError and return no value.
C10_ZeroDuration ==
    (pc # "start" /\ KnownCode(workout_type)
        /\ Len(data) = ArityOf(workout_type) /\ data[2] = 0)
    => /\ pc = "ready"
       /\ training.duration = 0
       /\ Called("get_distance") => Dist.exc = "None"
       /\ Called("get_mean_speed") => Speed = Raise("ZeroDivisionError")
       /\ Called("get_spent_calories") => Cal = Raise("ZeroDivisionError")
       /\ Called("show_training_info") => Info = Raise("ZeroDivisionError")

C10_Witness ==
    /\ pc = "ready"
    /\ training.cls = "SportsWalking"
    /\ training.duration = 0
    /\ training.action = 9000
    /\ \A op \in Ops : Called(op)

====
